---- MODULE Spec2Model ----
(***************************************************************************)
(* A model of verdi_llm/cli/generate_verdi_cli_json.py: the help-text      *)
(* parser (pure operators over strings, character by character) and the    *)
(* asynchronous tree walker (one action per stretch of code between two    *)
(* suspension points of a task of the event loop).                         *)
(***************************************************************************)
EXTENDS Integers, Sequences, FiniteSets, TLC

VARIABLES
    limit,      \* the value the semaphore was constructed with
    permits,    \* semaphore._value: free permits
    waiters,    \* semaphore._waiters: tasks blocked in acquire(), FIFO
    tasks,      \* the process_command coroutines: command_path, parent, pc and
                \* the outcome of the coroutine's subprocess
    entries,    \* the shared list the coroutines append to
    errors,     \* the diagnostics get_help_output printed
    mainPc,     \* position of main()
    file,       \* the file at VERDI_CLI_MAP
    lines,      \* parse_options: its argument
    idx,        \* parse_options: index of the next line of the for loop
    popt        \* parse_options: its locals (in_options, options, current_option)

vars == <<limit, permits, waiters, tasks, entries, errors, mainPc, file,
          lines, idx, popt>>
walkVars == <<limit, permits, waiters, tasks, entries, errors, mainPc, file>>
parseVars == <<lines, idx, popt>>

----------------------------------------------------------------------------
(* Bounds of the model *)

\* the command tree the external program exposes has at most this many nodes
MaxNodes == 4
\* the permit pool is tried with every capacity 1..MaxCapacity and with CONCURRENCY_LIMIT
MaxCapacity == 2
\* parse_options is applied to every text of at most this many lines
MaxLines == 4

(* Program constants *)
CONCURRENCY_LIMIT == 10

----------------------------------------------------------------------------
(* Python's str methods, on TLA+ strings (Len, SubSeq and \o work on them) *)

Whitespace == {" ", "\t", "\n"}

Char(s, i) == SubSeq(s, i, i)

\* s.startswith(p)
startswith(s, p) == Len(s) >= Len(p) /\ SubSeq(s, 1, Len(p)) = p

\* s.startswith((p1, p2, ...))
startswithAny(s, ps) == \E p \in ps : startswith(s, p)

RECURSIVE lstrip(_)
lstrip(s) ==
    IF Len(s) > 0 /\ Char(s, 1) \in Whitespace THEN lstrip(SubSeq(s, 2, Len(s))) ELSE s

RECURSIVE rstrip(_)
rstrip(s) ==
    IF Len(s) > 0 /\ Char(s, Len(s)) \in Whitespace
    THEN rstrip(SubSeq(s, 1, Len(s) - 1)) ELSE s

\* s.strip()
strip(s) == rstrip(lstrip(s))

\* index of the first occurrence of the one-character separator c in s from i on, else 0
RECURSIVE find(_, _, _)
find(s, c, i) ==
    IF i > Len(s) THEN 0
    ELSE IF Char(s, i) = c THEN i
    ELSE find(s, c, i + 1)

\* s.split(c), c one character
RECURSIVE split(_, _)
split(s, c) ==
    LET k == find(s, c, 1) IN
    IF k = 0 THEN <<s>>
    ELSE <<SubSeq(s, 1, k - 1)>> \o split(SubSeq(s, k + 1, Len(s)), c)

\* sep.join(parts)
RECURSIVE join(_, _)
join(sep, parts) ==
    IF Len(parts) = 0 THEN ""
    ELSE IF Len(parts) = 1 THEN parts[1]
    ELSE parts[1] \o sep \o join(sep, Tail(parts))

\* start of the leftmost run of two or more whitespace characters from i on, else 0
RECURSIVE findGap(_, _)
findGap(s, i) ==
    IF i + 1 > Len(s) THEN 0
    ELSE IF Char(s, i) \in Whitespace /\ Char(s, i + 1) \in Whitespace THEN i
    ELSE findGap(s, i + 1)

\* re.split(r"\s{2,}", s, 1): at most one split, the whole (greedy) run removed
resplit(s) ==
    LET k == findGap(s, 1) IN
    IF k = 0 THEN <<s>>
    ELSE <<SubSeq(s, 1, k - 1), lstrip(SubSeq(s, k, Len(s)))>>

Range(seq) == {seq[i] : i \in 1..Len(seq)}

----------------------------------------------------------------------------
(* The help-text parser *)

RECURSIVE parse_usage(_)
parse_usage(ls) ==
    IF Len(ls) = 0 THEN ""
    ELSE IF startswith(Head(ls), "Usage: ")
         THEN strip(SubSeq(Head(ls), Len("Usage: ") + 1, Len(Head(ls))))
         ELSE parse_usage(Tail(ls))

\* the list `description` of parse_description, before the join
RECURSIVE descriptionParts(_)
descriptionParts(ls) ==
    IF Len(ls) = 0 THEN <<>>
    ELSE LET line == Head(ls)
             stripped_line == strip(line)
         IN  IF startswithAny(stripped_line, {"Options:", "Commands:"}) THEN <<>>
             ELSE IF stripped_line # "" /\ ~startswith(line, "Usage: ")
                  THEN <<stripped_line>> \o descriptionParts(Tail(ls))
                  ELSE descriptionParts(Tail(ls))

parse_description(ls) == join(" ", descriptionParts(ls))

\* the locals of parse_options before the loop; current_option is None exactly
\* when options is empty, and is the last element of options otherwise
OptionsStart == [in_options |-> FALSE, options |-> <<>>, broke |-> FALSE]

\* the section test with the indentation looked up on the trimmed line
OptionsSectionEndsTrimmed(line, stripped_line) ==
    \/ startswithAny(stripped_line, {"Commands:", "Arguments:"})
    \/ (stripped_line # "" /\ ~startswith(stripped_line, " "))

\* the section test of parse_options (line 45-47): TRUE when the loop breaks
OptionsSectionEnds(line, stripped_line) ==
    \/ startswithAny(stripped_line, {"Commands:", "Arguments:"})
    \/ (stripped_line # "" /\ ~startswith(line, " "))

\* one iteration of the for loop of parse_options
OptionsLine(st, line) ==
    LET stripped_line == strip(line) IN
    IF startswith(stripped_line, "Options:") THEN [st EXCEPT !.in_options = TRUE]
    ELSE IF ~st.in_options THEN st
    ELSE IF OptionsSectionEnds(line, stripped_line) THEN [st EXCEPT !.broke = TRUE]
    ELSE IF startswith(stripped_line, "-")
         THEN LET parts == resplit(stripped_line)
                  flags == strip(parts[1])
                  desc  == IF Len(parts) > 1 THEN strip(parts[2]) ELSE ""
              IN  [st EXCEPT !.options =
                      Append(@, [flags |-> flags, description |-> desc])]
    ELSE IF Len(st.options) > 0 /\ stripped_line # ""
         THEN [st EXCEPT !.options[Len(st.options)].description =
                             @ \o " " \o stripped_line]
    ELSE st

RECURSIVE optionsLoop(_, _)
optionsLoop(st, ls) ==
    IF Len(ls) = 0 \/ st.broke THEN st
    ELSE optionsLoop(OptionsLine(st, Head(ls)), Tail(ls))

parse_options(ls) == optionsLoop(OptionsStart, ls).options

SubCommandsStart == [in_commands |-> FALSE, sub_commands |-> <<>>, broke |-> FALSE]

SubCommandsLine(st, line) ==
    LET stripped_line == strip(line) IN
    IF startswith(stripped_line, "Commands:") THEN [st EXCEPT !.in_commands = TRUE]
    ELSE IF ~st.in_commands THEN st
    ELSE IF \/ startswithAny(stripped_line, {"Options:", "Arguments:"})
            \/ (stripped_line # "" /\ ~startswith(line, " "))
         THEN [st EXCEPT !.broke = TRUE]
    ELSE IF stripped_line # ""
         THEN [st EXCEPT !.sub_commands = Append(@, strip(resplit(stripped_line)[1]))]
    ELSE st

RECURSIVE subCommandsLoop(_, _)
subCommandsLoop(st, ls) ==
    IF Len(ls) = 0 \/ st.broke THEN st
    ELSE subCommandsLoop(SubCommandsLine(st, Head(ls)), Tail(ls))

parse_sub_commands(ls) == subCommandsLoop(SubCommandsStart, ls).sub_commands

----------------------------------------------------------------------------
(* The external program `verdi`: what `verdi <path> --help` can answer *)

DocLeaf ==
    "Usage: verdi run [OPTIONS]\n\nRuns it.\n\nOptions:\n  --help, -h  Show help.\n  -n, --dry   Dry run.\n"
DocBranch ==
    "Usage: verdi [OPTIONS]\n\nDoes a thing.\n\nOptions:\n  -h, --help     Show help.\n  -v, --verbose  Be verbose.\n                 Very verbose.\nCommands:\n  foo  Does foo.\n  bar  Does bar.\n"
DocChain ==
    "Usage: verdi group\n\nCommands:\n  foo  Does foo.\n"
DocDup ==
    "Commands:\n  foo  Does foo.\n  foo  Does foo again.\n"
DocBlank == "\n"

\* kinds of outcome of the subprocess: it wrote stdout and exited 0 ("ok"), it exited
\* non-zero after writing stdout ("crash"), create_subprocess_exec raised ("spawn"),
\* wait_for raised TimeoutError after 30 s ("timeout"), stdout.decode() raised ("decode")
Raising == {"spawn", "timeout", "decode"}

\* the subprocess of a coroutine that has not got that far
NoAnswer == [kind |-> "none", stdout |-> ""]

Responses ==
    [kind : {"ok"}, stdout : {DocLeaf, DocBranch, DocChain, DocDup, DocBlank}]
    \cup [kind : {"crash"}, stdout : {DocLeaf}]
    \cup [kind : Raising, stdout : {""}]

\* stdout.decode().strip(), for every stdout the program can write
Decoded == [d \in {r.stdout : r \in Responses} |-> strip(d)]

\* lines 108-112 of process_command, for every help text there can be (and for the
\* empty one): the split into lines and the four parsers
ParsedHelp ==
    [t \in {Decoded[d] : d \in DOMAIN Decoded} |->
        LET ls == split(t, "\n") IN
        [usage        |-> parse_usage(ls),
         description  |-> parse_description(ls),
         options      |-> parse_options(ls),
         sub_commands |-> parse_sub_commands(ls)]]

\* cmd = ["verdi"] + command_path + ["--help"]
cmd(command_path) == <<"verdi">> \o command_path \o <<"--help">>

\* the line get_help_output prints in its except clause
ErrorLine(command_path, r) ==
    "Error executing " \o join(" ", cmd(command_path)) \o ": " \o r.kind

\* get_help_output with `except asyncio.TimeoutError` in place of `except Exception`
get_help_output_timeout_only(command_path, r) ==
    IF r.kind = "timeout"
    THEN [text |-> "", printed |-> {ErrorLine(command_path, r)}]
    ELSE [text |-> Decoded[r.stdout], printed |-> {}]

\* get_help_output: the text it returns and what it prints. The try block raises
\* for the kinds of Raising and for nothing else (the return code of the process is
\* not looked at), and `except Exception` catches all three
get_help_output(command_path, r) ==
    IF r.kind \in Raising
    THEN [text |-> "", printed |-> {ErrorLine(command_path, r)}]
    ELSE [text |-> Decoded[r.stdout], printed |-> {}]

----------------------------------------------------------------------------
(* process_command, between the release of the permit and the gather *)

\* flags = [f.strip() for f in option["flags"].split(",")]
Flags(option) ==
    LET parts == split(option.flags, ",")
    IN  [i \in 1..Len(parts) |-> strip(parts[i])]

\* the help test on the flags as split, not trimmed
SkipsOptionUntrimmed(option) == "-h" \in Range(split(option.flags, ","))

\* if "-h" in flags: continue
SkipsOption(option) == "-h" \in Range(Flags(option))

OptionEntry(command_path, usage, description, option) ==
    [command     |-> "verdi " \o join(" ", command_path \o <<join(" / ", Flags(option))>>),
     usage       |-> usage,
     description |-> strip(description \o " " \o option.description)]

RECURSIVE OptionEntries(_, _, _, _)
OptionEntries(command_path, usage, description, options) ==
    IF Len(options) = 0 THEN <<>>
    ELSE (IF SkipsOption(Head(options)) THEN <<>>
          ELSE <<OptionEntry(command_path, usage, description, Head(options))>>)
         \o OptionEntries(command_path, usage, description, Tail(options))

LeafEntry(command_path, usage, description) ==
    [command     |-> "verdi " \o join(" ", command_path),
     usage       |-> usage,
     description |-> strip(description)]

\* process_command without its early return
NoHelpNever(help_text) == FALSE

\* if not help_text: return
NoHelp(help_text) == help_text = ""

\* the entries of one call with the leaf entry appended outside the else branch
NodeEntriesLeafAlways(command_path, help_text) ==
    IF NoHelp(help_text) THEN <<>>
    ELSE LET h == ParsedHelp[help_text] IN
         OptionEntries(command_path, h.usage, h.description, h.options)
         \o <<LeafEntry(command_path, h.usage, h.description)>>

\* the entries one call appends, in order (lines 108-143)
NodeEntries(command_path, help_text) ==
    IF NoHelp(help_text) THEN <<>>
    ELSE LET h == ParsedHelp[help_text] IN
         OptionEntries(command_path, h.usage, h.description, h.options)
         \o (IF Len(h.sub_commands) = 0
             THEN <<LeafEntry(command_path, h.usage, h.description)>> ELSE <<>>)

\* the command paths a tree of at most MaxNodes nodes can hold
CommandPaths ==
    LET names == UNION {Range(ParsedHelp[t].sub_commands) : t \in DOMAIN ParsedHelp}
    IN  UNION {[1..k -> names] : k \in 0..(MaxNodes - 1)}

\* NodeEntries, tabulated: what a call appends depends on its path and help text only
AppendedBy == [p \in CommandPaths, t \in DOMAIN ParsedHelp |-> NodeEntries(p, t)]

\* the sub-commands one call recurses into
NodeSubCommands(help_text) ==
    IF NoHelp(help_text) THEN <<>> ELSE ParsedHelp[help_text].sub_commands

\* the child's path without its parent's
ChildPathBare(command_path, sub_cmd) == <<sub_cmd>>

\* command_path + [sub_cmd]
ChildPath(command_path, sub_cmd) == command_path \o <<sub_cmd>>

\* sub_tasks: one coroutine per element of sub_commands
SubTasks(n, command_path, sub_commands) ==
    [i \in 1..Len(sub_commands) |->
        [command_path |-> ChildPath(command_path, sub_commands[i]),
         parent |-> n, pc |-> "pending", answer |-> NoAnswer]]

\* each call rebinding the list instead of appending to it
AppendEntriesRebind(es, new) == new

\* entries.append, as many times as there are new entries
AppendEntries(es, new) == es \o new

\* a release placed after the early return: skipped when there is no help text
ReleaseOnHelpOnly(value, help_text) == IF help_text = "" THEN value ELSE value + 1

\* leaving `async with semaphore`: release(), whatever get_help_output returned
Release(value, help_text) == value + 1

----------------------------------------------------------------------------
(* The tree walker *)

Returned == {"failed", "leaf", "returned"}

Children(n) == {c \in 1..Len(tasks) : tasks[c].parent = n}

Fetching == {n \in 1..Len(tasks) : tasks[n].pc = "fetching"}

Capacities == (1..MaxCapacity) \cup {CONCURRENCY_LIMIT}

OldCatalog == <<[command |-> "verdi old", usage |-> "", description |-> ""]>>

ParseIdle == lines = <<>> /\ idx = 1 /\ popt = OptionsStart

\* main() up to its first suspension: the semaphore, the empty list, the root call
Init ==
    /\ limit \in Capacities
    /\ permits = limit
    /\ waiters = <<>>
    /\ tasks = <<[command_path |-> <<>>, parent |-> 0, pc |-> "pending", answer |-> NoAnswer]>>
    /\ entries = <<>>
    /\ errors = {}
    /\ mainPc = "walk"
    /\ file \in {[exists |-> FALSE, data |-> <<>>], [exists |-> TRUE, data |-> OldCatalog]}
    /\ ParseIdle

\* a semaphore that never makes anybody wait
LockedNever == FALSE

\* semaphore.locked(): no permit, or somebody already waits
Locked == permits = 0 \/ Len(waiters) > 0

\* a coroutine starts: it prints, then enters `async with semaphore`; it takes a
\* permit at once when the semaphore is not locked and is queued otherwise
Start(n) ==
    /\ mainPc = "walk"
    /\ tasks[n].pc = "pending"
    /\ IF Locked
       THEN /\ tasks' = [tasks EXCEPT ![n].pc = "acquiring"]
            /\ waiters' = Append(waiters, n)
            /\ UNCHANGED permits
       ELSE /\ tasks' = [tasks EXCEPT ![n].pc = "fetching"]
            /\ permits' = permits - 1
            /\ UNCHANGED waiters
    /\ UNCHANGED <<limit, entries, errors, mainPc, file, parseVars>>

\* the first waiter is woken once a permit is free, and starts the subprocess
Acquire(n) ==
    /\ mainPc = "walk"
    /\ tasks[n].pc = "acquiring"
    /\ Len(waiters) > 0 /\ Head(waiters) = n
    /\ permits > 0
    /\ permits' = permits - 1
    /\ waiters' = Tail(waiters)
    /\ tasks' = [tasks EXCEPT ![n].pc = "fetching"]
    /\ UNCHANGED <<limit, entries, errors, mainPc, file, parseVars>>

\* what the subprocess of a coroutine may do: any outcome that keeps the command
\* tree within MaxNodes nodes
Answers ==
    {r \in Responses :
        Len(tasks) + Len(NodeSubCommands(get_help_output(<<>>, r).text)) <= MaxNodes}

\* get_help_output returns (or raises and catches); the permit is released; the
\* text is parsed, the entries appended and the children handed to gather
Complete(n) ==
    /\ mainPc = "walk"
    /\ tasks[n].pc = "fetching"
    /\ \E r \in Answers :
       \E out \in {get_help_output(tasks[n].command_path, r)} :
        LET command_path == tasks[n].command_path
            help_text    == out.text
            sub_commands == NodeSubCommands(help_text)
            pc2 == IF NoHelp(help_text) THEN "failed"
                   ELSE IF Len(sub_commands) = 0 THEN "leaf" ELSE "gathering"
        IN  /\ errors' = errors \cup out.printed
            /\ permits' = Release(permits, help_text)
            /\ entries' = AppendEntries(entries, AppendedBy[command_path, help_text])
            /\ tasks' = [tasks EXCEPT ![n].pc = pc2, ![n].answer = r]
                        \o SubTasks(n, command_path, sub_commands)
    /\ UNCHANGED <<limit, waiters, mainPc, file, parseVars>>

\* await asyncio.gather(*sub_tasks) returns once every child has returned
Join(n) ==
    /\ mainPc = "walk"
    /\ tasks[n].pc = "gathering"
    /\ \A c \in Children(n) : tasks[c].pc \in Returned
    /\ tasks' = [tasks EXCEPT ![n].pc = "returned"]
    /\ UNCHANGED <<limit, permits, waiters, entries, errors, mainPc, file, parseVars>>

\* open(VERDI_CLI_MAP, "w"), after the root call has returned
Open ==
    /\ mainPc = "walk"
    /\ tasks[1].pc \in Returned
    /\ mainPc' = "dump"
    /\ file' = [exists |-> TRUE, data |-> <<>>]
    /\ UNCHANGED <<limit, permits, waiters, tasks, entries, errors, parseVars>>

\* json.dump writes the list piece by piece
Dump ==
    /\ mainPc = "dump"
    /\ Len(file.data) < Len(entries)
    /\ file' = [file EXCEPT !.data = Append(@, entries[Len(file.data) + 1])]
    /\ UNCHANGED <<limit, permits, waiters, tasks, entries, errors, mainPc, parseVars>>

\* the with block is left, main returns
Close ==
    /\ mainPc = "dump"
    /\ Len(file.data) = Len(entries)
    /\ mainPc' = "done"
    /\ UNCHANGED <<limit, permits, waiters, tasks, entries, errors, file, parseVars>>

\* the process is killed
Interrupt ==
    /\ mainPc \in {"walk", "dump"}
    /\ mainPc' = "interrupted"
    /\ UNCHANGED <<limit, permits, waiters, tasks, entries, errors, file, parseVars>>

Run ==
    \/ \E n \in 1..Len(tasks) : Start(n)
    \/ \E n \in 1..Len(tasks) : Acquire(n)
    \/ \E n \in 1..Len(tasks) : Complete(n)
    \/ \E n \in 1..Len(tasks) : Join(n)
    \/ Open
    \/ Dump
    \/ Close

Next == Run \/ Interrupt

Spec == Init /\ [][Next]_vars

\* the event loop runs a ready task, the subprocess answers or times out, the write proceeds
FairSpec == Init /\ [][Run]_vars /\ WF_vars(Run)

----------------------------------------------------------------------------
(* What the claims speak about *)

Nodes == 1..Len(tasks)
PathOf(n) == tasks[n].command_path
\* get_help_output has returned for n
Done(n) == tasks[n].pc \notin {"pending", "acquiring", "fetching"}
\* n got help text and parsed it
Parsed(n) == tasks[n].pc \in {"leaf", "gathering", "returned"}
\* the outcome of n's subprocess
AnswerOf(n) == tasks[n].answer
\* what the four parsers return for the help text n got
HelpOf(n) == ParsedHelp[Decoded[AnswerOf(n).stdout]]
\* what a step appended to the list
Appended == SubSeq(entries', Len(entries) + 1, Len(entries'))
\* the tasks a step created
Created == SubSeq(tasks', Len(tasks) + 1, Len(tasks'))
\* the step in which n, its subprocess over, goes on
Resumes(n) == tasks[n].pc = "fetching" /\ tasks'[n].pc # "fetching"
\* root program name, then the tokens, separated by single spaces
CommandText(tokens) == "verdi " \o join(" ", tokens)
\* the entries whose command is that of the node at path p: the leaf entry or an option entry
OwnedBy(p) ==
    {i \in 1..Len(entries) :
        \/ entries[i].command = CommandText(p)
        \/ startswith(entries[i].command, CommandText(p \o <<"-">>))}
Multiplicity(seq, x) == Cardinality({i \in 1..Len(seq) : seq[i] = x})

----------------------------------------------------------------------------
(* C1 *)

C1_InFlight == Cardinality(Fetching) <= limit

C1_Blocks ==
    \A n \in Nodes :
        (Cardinality(Fetching) = limit /\ tasks[n].pc \in {"pending", "acquiring"})
            => tasks'[n].pc \in {"pending", "acquiring"}

\* C1: the number of help invocations in flight never exceeds the capacity of the
\* permit pool, and while the pool is exhausted a node that has not got a permit
\* stays waiting: it neither fails nor starts its invocation
C1_PermitPool == []C1_InFlight /\ [][C1_Blocks]_vars

\* a node blocked in acquire() while as many invocations as permits are in flight
C1_Witness ==
    /\ Cardinality(Fetching) = limit
    /\ \E n \in Nodes : tasks[n].pc = "acquiring"

----------------------------------------------------------------------------
(* C2 *)

\* the invocation timed out, failed otherwise, or printed nothing but whitespace
YieldsNoHelp(r) == r.kind \in Raising \/ strip(r.stdout) = ""

C2_Step ==
    \A n \in Nodes :
        (/\ tasks[n].pc = "fetching"
         /\ tasks'[n].pc # "fetching"
         /\ YieldsNoHelp(tasks'[n].answer))
        => /\ tasks'[n].pc = "failed"
           /\ entries' = entries
           /\ Len(tasks') = Len(tasks)

C2_NoChild == \A n \in Nodes : tasks[n].pc = "failed" => Children(n) = {}

C2_AnyFailed == \E n \in Nodes : tasks[n].pc = "failed"

\* C2: the step in which a node learns that its invocation gave no help text
\* appends nothing and starts no task; the node never has children; and once a
\* node has failed the root call still returns
C2_FailureAbsorbed ==
    /\ [][C2_Step]_vars
    /\ []C2_NoChild
    /\ [](C2_AnyFailed => <>(tasks[1].pc \in Returned))

\* a timed-out node below a root that has returned, its sibling having appended its entries
C2_Witness ==
    /\ tasks[1].pc = "returned"
    /\ \E n, m \in Children(1) :
        /\ tasks[n].pc = "failed" /\ AnswerOf(n).kind = "timeout"
        /\ tasks[m].pc = "leaf" /\ OwnedBy(PathOf(m)) # {}

----------------------------------------------------------------------------
(* C3 *)

\* the list only grows
C3_AppendOnly == Len(entries') >= Len(entries) /\ SubSeq(entries', 1, Len(entries)) = entries

C3_Step ==
    \A n \in Nodes : (Resumes(n) /\ Parsed(n)') =>
        LET p      == PathOf(n)
            h      == HelpOf(n)'
            leaves == {i \in 1..Len(Appended) : Appended[i].command = CommandText(p)}
        IN  IF Len(h.sub_commands) = 0
            THEN /\ Created = <<>>
                 /\ leaves = {Len(Appended)}
                 /\ Appended[Len(Appended)] =
                        [command |-> CommandText(p), usage |-> h.usage,
                         description |-> h.description]
            ELSE /\ leaves = {}
                 /\ Len(Created) = Len(h.sub_commands)
                 /\ \A k \in 1..Len(h.sub_commands) :
                        /\ Created[k].command_path = p \o <<h.sub_commands[k]>>
                        /\ Created[k].parent = n

C3_Children ==
    \A n \in Nodes : Parsed(n) => Cardinality(Children(n)) = Len(HelpOf(n).sub_commands)

\* C3: the step in which a node parses its help text appends, when the text lists
\* no sub-command, exactly one leaf entry (program name and path tokens, the parsed
\* usage and description), after its option entries, and creates no task; when it
\* lists sub-commands the step appends no leaf entry and creates one task per
\* listed name, at the node's path extended by that name. No other step adds to
\* the node: the list only grows and the node's children stay those
C3_LeafOrBranch == [][C3_Step /\ C3_AppendOnly]_vars /\ []C3_Children

\* a branch with two children and, below it, a leaf that has written its leaf entry
C3_Witness ==
    \E n, c \in Nodes :
        /\ tasks[n].pc = "returned" /\ Cardinality(Children(n)) = 2
        /\ c \in Children(n) /\ tasks[c].pc = "leaf"
        /\ \E i \in 1..Len(entries) : entries[i].command = CommandText(PathOf(c))

----------------------------------------------------------------------------
(* C4 *)

FlagTokens(option) ==
    LET pieces == split(option.flags, ",") IN [k \in 1..Len(pieces) |-> strip(pieces[k])]

\* C4: for every option the parser returns for a parsed node, the catalog holds
\* the entry (command: program, path and the flag variants joined with " / ";
\* usage: the node's; description: the node's and the option's joined by a space
\* and trimmed) exactly when "-h" is not one of the trimmed flag variants; and
\* the parser does return the help option
C4_OptionEntries ==
    \A n \in Nodes : Parsed(n) =>
        LET options == HelpOf(n).options IN
        /\ \A k \in 1..Len(options) :
            LET e == [command |-> CommandText(PathOf(n)
                                     \o <<join(" / ", FlagTokens(options[k]))>>),
                      usage |-> HelpOf(n).usage,
                      description |-> strip(HelpOf(n).description
                                            \o " " \o options[k].description)]
            IN  (e \in Range(entries)) <=> ("-h" \notin Range(FlagTokens(options[k])))
        /\ AnswerOf(n).stdout = DocBranch =>
              options[1] = [flags |-> "-h, --help", description |-> "Show help."]
        /\ AnswerOf(n).stdout = DocLeaf =>
              options[1] = [flags |-> "--help, -h", description |-> "Show help."]

\* the entry of the specification's example is in the catalog, the help option's is not
C4_Witness ==
    /\ [command |-> "verdi -v / --verbose", usage |-> "verdi [OPTIONS]",
        description |-> "Does a thing. Be verbose. Very verbose."] \in Range(entries)
    /\ \E n \in Nodes : Parsed(n) /\ AnswerOf(n).stdout = DocLeaf
    /\ \A i \in 1..Len(entries) :
          entries[i].command \notin {"verdi -h / --help", "verdi foo --help / -h",
                                     "verdi bar --help / -h"}

----------------------------------------------------------------------------
(* C5 *)

\* C5: the file is touched only once the root call has returned, and a run that
\* was interrupted leaves either no file, or the file it found, or the whole catalog
C5_WrittenOnceAtomically ==
    /\ mainPc = "walk" => (~file.exists \/ file.data = OldCatalog)
    /\ mainPc \in {"dump", "done"} => \A n \in Nodes : tasks[n].pc \in Returned
    /\ mainPc = "interrupted" =>
          (~file.exists \/ file.data = OldCatalog \/ file.data = entries)

----------------------------------------------------------------------------
(* C6 *)

\* the program was unchanged: it answered alike whenever it was asked the same
C6_Unchanged ==
    \A m, n \in Nodes : (Done(m) /\ Done(n) /\ PathOf(m) = PathOf(n)) => AnswerOf(m) = AnswerOf(n)

\* the program as the run saw it: command path -> outcome
C6_Program ==
    [p \in {PathOf(n) : n \in {m \in Nodes : Done(m)}} |->
        AnswerOf(CHOOSE n \in Nodes : Done(n) /\ PathOf(n) = p)]

\* the entries of the subtree at p, from the program alone
RECURSIVE CatalogOf(_, _)
CatalogOf(prog, p) ==
    IF p \notin DOMAIN prog THEN {}
    ELSE LET text == IF prog[p].kind \in Raising THEN "" ELSE Decoded[prog[p].stdout]
             subs == IF text = "" THEN <<>> ELSE ParsedHelp[text].sub_commands
         IN  (IF text = "" THEN {} ELSE Range(NodeEntries(p, text)))
             \cup UNION {CatalogOf(prog, p \o <<subs[k]>>) : k \in 1..Len(subs)}

\* C6: against an unchanged program, the set of entries a finished run leaves, in
\* the list and in the file, is a function of the program's answers alone, whatever
\* the interleaving and the capacity
C6_SameEntrySet ==
    (mainPc = "done" /\ C6_Unchanged) =>
        /\ Range(entries) = CatalogOf(C6_Program, <<>>)
        /\ Range(file.data) = CatalogOf(C6_Program, <<>>)

\* a finished run over a tree of two parsed siblings, with capacity 1
C6_Witness ==
    /\ mainPc = "done" /\ limit = 1 /\ C6_Unchanged
    /\ \E n, m \in Children(1) :
          n # m /\ PathOf(n) # PathOf(m) /\ Parsed(n) /\ Parsed(m)
    /\ Cardinality(Range(entries)) >= 4

----------------------------------------------------------------------------
(* C7 *)

C7_NoRepeatedListing ==
    \A n \in Nodes : Parsed(n) =>
        \A x \in Range(HelpOf(n).sub_commands) : Multiplicity(HelpOf(n).sub_commands, x) = 1

----------------------------------------------------------------------------
(* C8 *)

\* the diagnostic: the full command and the error
Diagnostic(p, kind) ==
    "Error executing verdi " \o (IF Len(p) = 0 THEN "" ELSE join(" ", p) \o " ")
        \o "--help: " \o kind

C8_Failures == {"spawn", "crash", "decode", "timeout"}

\* n has failed, its diagnostic is logged, it has no children
C8_Recovered(n) ==
    /\ tasks[n].pc = "failed"
    /\ Diagnostic(PathOf(n), AnswerOf(n).kind) \in errors
    /\ Children(n) = {}

\* C8 as stated: spawn failure, crash, undecodable output and timeout are all
\* recovered alike: the node is logged and failed, and has appended and started nothing
C8_EveryFailure ==
    \A n \in Nodes : (Done(n) /\ AnswerOf(n).kind \in C8_Failures) => C8_Recovered(n)

C8_Step ==
    \A n \in Nodes : (Resumes(n) /\ AnswerOf(n)'.kind \in Raising) =>
        /\ Appended = <<>> /\ Len(entries') = Len(entries)
        /\ Created = <<>>
        /\ errors' = errors \cup {Diagnostic(PathOf(n), AnswerOf(n)'.kind)}

C8_State ==
    \A n \in Nodes : Done(n) =>
        /\ AnswerOf(n).kind \in Raising => C8_Recovered(n)
        /\ AnswerOf(n).kind = "crash" =>
              /\ Diagnostic(PathOf(n), "crash") \notin errors
              /\ Decoded[AnswerOf(n).stdout] # "" => Parsed(n)

\* C8 amended: the failures that raise inside get_help_output (spawn failure,
\* undecodable output, timeout) are recovered alike: the diagnostic is logged, the
\* node appends nothing, starts nothing and ends failed; a process that crashed
\* after writing output is not noticed: nothing is logged and what it wrote is
\* parsed like any help text
C8_RaisedFailures == [][C8_Step]_vars /\ []C8_State

\* a timeout, logged with its command, beside a crashed process whose output was parsed
C8_Witness ==
    /\ \E n \in Nodes : tasks[n].pc = "failed" /\ AnswerOf(n).kind = "timeout"
    /\ \E n \in Nodes : tasks[n].pc = "leaf" /\ AnswerOf(n).kind = "crash"
    /\ errors = {"Error executing verdi foo --help: timeout"}

----------------------------------------------------------------------------
(* C10 *)

C10_PermitHeld == permits = limit - Cardinality(Fetching)

C10_JoinOrder ==
    \A n \in Nodes : tasks[n].pc = "returned" =>
        \A c \in Children(n) : tasks[c].pc \in Returned

C10_Quiescent ==
    /\ \A n \in Nodes : tasks[n].pc \in Returned
    /\ permits = limit
    /\ waiters = <<>>

\* C10: a permit is out exactly while an invocation is in flight, a branch has
\* returned only if all its children have, and under fair scheduling the walk
\* ends with every node returned and every permit free
C10_NoDeadlock == [](C10_PermitHeld /\ C10_JoinOrder) /\ <>[]C10_Quiescent

\* capacity 1 and a node two levels down: everything has returned, the permit is free
C10_Witness ==
    /\ limit = 1
    /\ C10_Quiescent
    /\ \E n \in Nodes : Len(PathOf(n)) = 2 /\ tasks[n].pc = "leaf"

----------------------------------------------------------------------------
(* parse_options, one line of its loop at a time *)

\* the lines the texts handed to parse_options are made of
LineSet ==
    {"Options:", "  Options: more", "Commands:", "  Arguments:", "",
     "  -v, --verbose  Be verbose.", "      Very verbose.", "Epilog text",
     "-x  flush left", "\t-t  tabbed"}

Texts == UNION {[1..k -> LineSet] : k \in 0..MaxLines}

\* no walk runs while the parser is looked at alone
WalkIdle ==
    /\ limit = CONCURRENCY_LIMIT /\ permits = CONCURRENCY_LIMIT /\ waiters = <<>>
    /\ tasks = <<>> /\ entries = <<>> /\ errors = {}
    /\ mainPc = "idle" /\ file = [exists |-> FALSE, data |-> <<>>]

ParseInit ==
    /\ WalkIdle
    /\ lines \in Texts
    /\ idx = 1
    /\ popt = OptionsStart

\* the for loop is over: the lines are exhausted or the loop was left by break
ParseReturned == idx > Len(lines) \/ popt.broke

ParseLine ==
    /\ ~ParseReturned
    /\ popt' = OptionsLine(popt, lines[idx])
    /\ idx' = idx + 1
    /\ UNCHANGED <<lines, walkVars>>

ParseSpec == ParseInit /\ [][ParseLine]_vars

----------------------------------------------------------------------------
(* C9: the options section, as the specification describes it *)

IsHeader(line) == startswith(strip(line), "Options:")

\* a line that ends the section according to the specification
IsStopLine(line) ==
    \/ startswith(strip(line), "Commands:")
    \/ startswith(strip(line), "Arguments:")
    \/ (strip(line) # "" /\ ~startswith(line, " "))

\* the least index from i on at which Test holds, else Len(ls) + 1
FirstFrom(ls, i, Test(_)) ==
    LET hits == {j \in i..Len(ls) : Test(ls[j])} IN
    IF hits = {} THEN Len(ls) + 1 ELSE CHOOSE j \in hits : \A k \in hits : j <= k

\* the elements of ls at which Test holds, in order
Keep(ls, Test(_)) ==
    LET hits == {j \in 1..Len(ls) : Test(ls[j])}
        nth[k \in 1..Cardinality(hits)] ==
            CHOOSE j \in hits : Cardinality({h \in hits : h <= j}) = k
    IN  [k \in 1..Cardinality(hits) |-> ls[nth[k]]]

OpensOption(line) == startswith(strip(line), "-")

\* the option a "-" line opens, extended by the continuation lines that follow it
RECURSIVE Extended(_, _)
Extended(desc, ls) ==
    IF Len(ls) = 0 \/ OpensOption(Head(ls)) THEN desc
    ELSE Extended(IF strip(Head(ls)) = "" THEN desc ELSE desc \o " " \o strip(Head(ls)),
                  Tail(ls))

OptionAt(section, i) ==
    LET parts == resplit(strip(section[i])) IN
    [flags |-> parts[1],
     description |-> Extended(IF Len(parts) > 1 THEN parts[2] ELSE "",
                              SubSeq(section, i + 1, Len(section)))]

\* the options of a section: one per line that starts with "-", in order
SectionOptions(section) ==
    LET opens == Keep([i \in 1..Len(section) |-> i], LAMBDA i : OpensOption(section[i]))
    IN  [k \in 1..Len(opens) |-> OptionAt(section, opens[k])]

\* the section as the specification words it: from the header to the first stop line
SectionAsSpecified(ls) ==
    LET start == FirstFrom(ls, 1, IsHeader)
        stop  == FirstFrom(ls, start + 1, IsStopLine)
    IN  SubSeq(ls, start + 1, stop - 1)

\* the section as the code has it: a further "Options:" line neither ends the
\* section nor belongs to it
SectionAmended(ls) ==
    LET start == FirstFrom(ls, 1, IsHeader)
        stop  == FirstFrom(ls, start + 1, LAMBDA l : IsStopLine(l) /\ ~IsHeader(l))
    IN  Keep(SubSeq(ls, start + 1, stop - 1), LAMBDA l : ~IsHeader(l))

\* C9 as stated: parse_options returns the options of the lines between the
\* "Options:" header and the first line that starts with "Commands:" or "Arguments:"
\* or is non-empty and not indented; a "-" line opens an option, every other
\* non-empty line extends the last opened one
C9_AsStated == ParseReturned => popt.options = SectionOptions(SectionAsSpecified(lines))

\* C9 amended: the same, except that a line whose trimmed content starts with
\* "Options:" is always skipped: inside the section it neither stops the parsing
\* (even unindented) nor extends an option's description
C9_OptionsSection == ParseReturned => popt.options = SectionOptions(SectionAmended(lines))

\* an option with a continuation line, then an unindented line that stops the
\* parsing and, starting with "-", would itself be an option
C9_Witness ==
    /\ popt.broke
    /\ OpensOption(lines[idx - 1])
    /\ popt.options = <<[flags |-> "-v, --verbose",
                         description |-> "Be verbose. Very verbose."]>>

====
